---------------------------- MODULE Spec2Model ----------------------------
(***************************************************************************)
(* Model of the rapport-http request builder (lib/websocket/http.js), its  *)
(* verb adapters (get.js, put.js) and the response translator.             *)
(*                                                                         *)
(* JavaScript values are tagged records.  Strings are sequences of         *)
(* one-character strings, so that indexOf, join and encodeURIComponent are *)
(* computed character by character.  A mapping is a sequence of            *)
(* [k, v] entries with distinct keys, kept in property insertion order.    *)
(* Objects that the code mutates in place (the builder's body, the         *)
(* transport's response objects) live in `heap` and are named by           *)
(* references; object literals that the code only reads are values.        *)
(***************************************************************************)
EXTENDS Integers, Sequences, FiniteSets, TLC

VARIABLES
    http,       \* the builder object of http.js:49-187, or NoHttp before construction
    heap,       \* mutable objects: heap[r] is the mapping of the object with reference r
    socket,     \* the calls made on wrappedSocket, in order (send / request)
    replies,    \* the transport's replies to request calls (callback invocations, settlements)
    cbCalls,    \* invocations of the caller's callback cb, in order
    promises,   \* the promises returned by send, in order
    returned,   \* outcome of the most recent call of the API: value returned or thrown
    tlog,       \* arguments of the timeout(ms) calls so far, in order
    calls,      \* the calls of the API so far, with their arguments, in order
    nsteps      \* number of calls and replies since construction

vars == <<http, heap, socket, replies, cbCalls, promises, returned, tlog, calls, nsteps>>

(***************************************************************************)
(* Bounds of the model.                                                    *)
(***************************************************************************)
MaxSteps == 3        \* calls on the builder and replies of the transport, after construction
MaxSends == 2        \* send() calls on the builder
MaxDeliveries == 2   \* replies (callback invocations, promise settlements) by the transport

(***************************************************************************)
(* JavaScript values.                                                      *)
(***************************************************************************)
Undef == [t |-> "undefined"]
Null == [t |-> "null"]
Bool(b) == [t |-> "boolean", b |-> b]
Num(n) == [t |-> "number", n |-> n]
Str(s) == [t |-> "string", s |-> s]
Arr(a) == [t |-> "array", a |-> a]
Obj(m) == [t |-> "object", m |-> m]
Ref(r) == [t |-> "ref", r |-> r]
Err(name) == [t |-> "error", e |-> name]

Entry(k, v) == [k |-> k, v |-> v]

\* ToBoolean of the language: the conditions `if (res)`, `if (query)`,
\* `!http._expectResponse`, `!cb`.
Truthy(v) ==
    CASE v.t = "undefined" -> FALSE
      [] v.t = "null" -> FALSE
      [] v.t = "boolean" -> v.b
      [] v.t = "number" -> v.n # 0
      [] v.t = "string" -> v.s # <<>>
      [] OTHER -> TRUE

\* Primitive values: in strict mode, creating a property on one throws.
IsPrimitive(v) == v.t \in {"undefined", "null", "boolean", "number", "string"}

\* Property names used by the code.
k_m == <<"_", "m">>
k_u == <<"_", "u">>
k_b == <<"_", "b">>
k_s == <<"_", "s">>
kstatus == <<"s", "t", "a", "t", "u", "s">>
kbody == <<"b", "o", "d", "y">>

\* Property read, write and delete on a mapping.
Has(m, k) == \E i \in 1..Len(m) : m[i].k = k
GetProp(m, k) ==
    IF Has(m, k) THEN m[CHOOSE i \in 1..Len(m) : m[i].k = k].v ELSE Undef
SetProp(m, k, v) ==
    IF Has(m, k)
    THEN [i \in 1..Len(m) |-> IF m[i].k = k THEN Entry(k, v) ELSE m[i]]
    ELSE Append(m, Entry(k, v))
DeleteProp(m, k) == SelectSeq(m, LAMBDA e : e.k # k)
Keys(m) == {m[i].k : i \in 1..Len(m)}

(***************************************************************************)
(* util.js: type predicates.                                               *)
(***************************************************************************)
isString(v) == v.t = "string"
isNumber(v) == v.t = "number"
isArray(v) == v.t = "array"
isObject(v) == v.t \in {"object", "ref"}

NoThrow == [t |-> "nothrow"]
TypeError(msg) == [t |-> "TypeError", msg |-> msg]


(***************************************************************************)
(* Strings: ToStr, Array.prototype.join, indexOf, encodeURIComponent.   *)
(***************************************************************************)
Digit(d) == <<"0", "1", "2", "3", "4", "5", "6", "7", "8", "9">>[d + 1]

RECURSIVE NatToString(_)
NatToString(n) ==
    IF n < 10 THEN <<Digit(n)>> ELSE NatToString(n \div 10) \o <<Digit(n % 10)>>

\* String conversion of the language, as applied by join and encodeURIComponent.
ToStr(v) ==
    CASE v.t = "string" -> v.s
      [] v.t = "number" -> IF v.n < 0 THEN <<"-">> \o NatToString(-v.n) ELSE NatToString(v.n)
      [] v.t = "boolean" -> IF v.b THEN <<"t", "r", "u", "e">> ELSE <<"f", "a", "l", "s", "e">>
      [] v.t = "null" -> <<"n", "u", "l", "l">>
      [] OTHER -> <<"u", "n", "d", "e", "f", "i", "n", "e", "d">>

\* Array.prototype.join: null and undefined elements render as the empty string.
RECURSIVE Join(_, _)
Join(a, sep) ==
    IF a = <<>> THEN <<>>
    ELSE LET el == IF a[1].t \in {"null", "undefined"} THEN <<>> ELSE ToStr(a[1])
         IN  IF Len(a) = 1 THEN el ELSE el \o sep \o Join(Tail(a), sep)

\* Join of strings that are already rendered.
RECURSIVE JoinStrings(_, _)
JoinStrings(ss, sep) ==
    IF ss = <<>> THEN <<>>
    ELSE IF Len(ss) = 1 THEN ss[1] ELSE ss[1] \o sep \o JoinStrings(Tail(ss), sep)

\* s.indexOf(c) >= 0
Contains(s, c) == \E i \in 1..Len(s) : s[i] = c

\* Characters encodeURIComponent leaves alone: A-Z a-z 0-9 - _ . ! ~ * ' ( )
Unreserved ==
    {"a", "b", "c", "d", "e", "f", "g", "h", "i", "j", "k", "l", "m", "n", "o", "p",
     "q", "r", "s", "t", "u", "v", "w", "x", "y", "z",
     "0", "1", "2", "3", "4", "5", "6", "7", "8", "9",
     "-", "_", ".", "!", "~", "*", "'", "(", ")"}

\* Percent-encoding of the other characters of the model's alphabet.
PercentCode(c) ==
    CASE c = " " -> <<"%", "2", "0">>
      [] c = "&" -> <<"%", "2", "6">>
      [] c = "=" -> <<"%", "3", "D">>
      [] c = "?" -> <<"%", "3", "F">>
      [] c = "/" -> <<"%", "2", "F">>
      [] c = "%" -> <<"%", "2", "5">>

RECURSIVE EncodeChars(_)
EncodeChars(s) ==
    IF s = <<>> THEN <<>>
    ELSE (IF s[1] \in Unreserved THEN <<s[1]>> ELSE PercentCode(s[1])) \o EncodeChars(Tail(s))

\* Mutant of encodeURIComponent: nothing is escaped.
encodeNothing(v) == ToStr(v)

encodeURIComponent(v) == EncodeChars(ToStr(v))

(***************************************************************************)
(* translateResponse, http.js:18-28.  The module is in strict mode         *)
(* (http.js:1), so `res.status = ...` on a truthy primitive throws a       *)
(* TypeError; on an object the rename happens in place in the heap.        *)
(***************************************************************************)
\* Mutant of Renamed: the private fields are copied but not deleted.
RenamedKeepingPrivate(m) ==
    SetProp(SetProp(m, kstatus, GetProp(m, k_s)), kbody, GetProp(m, k_b))

\* The four statements of http.js:20-24 on the mapping of an object.
Renamed(m) ==
    LET m1 == SetProp(m, kstatus, GetProp(m, k_s))
        m2 == DeleteProp(m1, k_s)
        m3 == SetProp(m2, kbody, GetProp(m2, k_b))
    IN  DeleteProp(m3, k_b)

translateResponse(h, res) ==
    IF Truthy(res)
    THEN IF IsPrimitive(res)
         THEN [heap |-> h, ret |-> Undef,
               threw |-> TypeError("Cannot create property 'status'")]
         ELSE IF res.t = "ref"
              THEN [heap |-> [h EXCEPT ![res.r] = Renamed(@)], ret |-> res, threw |-> NoThrow]
              ELSE [heap |-> h, ret |-> res, threw |-> NoThrow]
    ELSE [heap |-> h, ret |-> res, threw |-> NoThrow]

\* The wrapper callback of http.js:176-178: both arguments are translated,
\* left to right, before cb is called.
wrapper(h, res, err) ==
    LET t1 == translateResponse(h, res)
        t2 == translateResponse(t1.heap, err)
    IN  IF t1.threw # NoThrow
        THEN [heap |-> t1.heap, threw |-> t1.threw, called |-> FALSE, res |-> Undef, err |-> Undef]
        ELSE IF t2.threw # NoThrow
             THEN [heap |-> t2.heap, threw |-> t2.threw, called |-> FALSE,
                   res |-> Undef, err |-> Undef]
             ELSE [heap |-> t2.heap, threw |-> NoThrow, called |-> TRUE,
                   res |-> t1.ret, err |-> t2.ret]

\* The handlers given to .then at http.js:183-185: the state the returned
\* promise settles to when the transport's promise fulfils or rejects.
onFulfilled(h, res) ==
    LET t == translateResponse(h, res)
    IN  IF t.threw # NoThrow
        THEN [heap |-> t.heap, state |-> "rejected", value |-> t.threw]
        ELSE [heap |-> t.heap, state |-> "fulfilled", value |-> t.ret]

onRejected(h, err) ==
    LET t == translateResponse(h, err)
    IN  IF t.threw # NoThrow
        THEN [heap |-> t.heap, state |-> "rejected", value |-> t.threw]
        ELSE [heap |-> t.heap, state |-> "rejected", value |-> t.ret]

(***************************************************************************)
(* The builder, http.js:39-190.  Each handler is an operator from the      *)
(* builder b (and the heap h where it mutates an object) to the new        *)
(* builder, the value thrown and the value returned.                       *)
(***************************************************************************)
NoHttp == [t |-> "none"]
RetHttp == [t |-> "http"]

\* Mutant of Construct: the url is checked before the method.
ConstructUrlFirst(method, url, r) ==
    IF ~isString(url)
    THEN [http |-> NoHttp, threw |-> TypeError("HTTP URL must be a string")]
    ELSE IF ~isString(method)
         THEN [http |-> NoHttp, threw |-> TypeError("HTTP method must be a string")]
         ELSE [http |-> [_method |-> method, _url |-> url, _body |-> Ref(r),
                         _timeout |-> Num(0), _expectResponse |-> Bool(TRUE)],
               threw |-> NoThrow]

\* module.exports, http.js:39-56 and 189: the argument checks and the
\* initial fields; r is the reference of the fresh `{}` of line 53.
Construct(method, url, r) ==
    IF ~isString(method)
    THEN [http |-> NoHttp, threw |-> TypeError("HTTP method must be a string")]
    ELSE IF ~isString(url)
         THEN [http |-> NoHttp, threw |-> TypeError("HTTP URL must be a string")]
         ELSE [http |-> [_method |-> method, _url |-> url, _body |-> Ref(r),
                         _timeout |-> Num(0), _expectResponse |-> Bool(TRUE)],
               threw |-> NoThrow]

\* util.forEach over the entries of a mapping with the callback of line 67,
\* `http._body[key] = value`, on the mapping m of the body object.
RECURSIVE MergeInto(_, _)
MergeInto(m, entries) ==
    IF entries = <<>> THEN m
    ELSE MergeInto(SetProp(m, entries[1].k, entries[1].v), Tail(entries))

\* The entries of an object, literal or on the heap.
EntriesOf(h, v) == IF v.t = "ref" THEN h[v.r] ELSE v.m

\* Mutant of body: replacing the body also clears the timeout.
bodyClearingTimeout(b, h, v) ==
    IF isObject(v)
    THEN IF EntriesOf(h, v) = <<>>
         THEN [http |-> b, heap |-> h, threw |-> NoThrow]
         ELSE IF b._body.t = "ref"
              THEN [http |-> b,
                    heap |-> [h EXCEPT ![b._body.r] = MergeInto(@, EntriesOf(h, v))],
                    threw |-> NoThrow]
              ELSE [http |-> b, heap |-> h,
                    threw |-> TypeError("Cannot create property on the body")]
    ELSE [http |-> [b EXCEPT !._body = v, !._timeout = Num(0)], heap |-> h, threw |-> NoThrow]

\* body, http.js:64-74.
body(b, h, v) ==
    IF isObject(v)
    THEN IF EntriesOf(h, v) = <<>>
         THEN [http |-> b, heap |-> h, threw |-> NoThrow]
         ELSE IF b._body.t = "ref"
              THEN [http |-> b,
                    heap |-> [h EXCEPT ![b._body.r] = MergeInto(@, EntriesOf(h, v))],
                    threw |-> NoThrow]
              ELSE [http |-> b, heap |-> h,
                    threw |-> TypeError("Cannot create property on the body")]
    ELSE [http |-> [b EXCEPT !._body = v], heap |-> h, threw |-> NoThrow]

\* The pairs pushed at http.js:97-99.
RECURSIVE QueryArray(_)
QueryArray(entries) ==
    IF entries = <<>> THEN <<>>
    ELSE <<encodeURIComponent(Str(entries[1].k)) \o <<"=">> \o encodeURIComponent(entries[1].v)>>
         \o QueryArray(Tail(entries))

\* Mutant of AppendQuery: the separator is always "?".
AppendQueryAlwaysQuestion(url, queryString) ==
    url \o <<"?">> \o queryString

\* The url after http.js:107-111.
AppendQuery(url, queryString) ==
    IF Contains(url, "?") THEN url \o <<"&">> \o queryString ELSE url \o <<"?">> \o queryString

\* Mutant of query: an input of an unsupported shape is appended as a
\* string before the error is raised.
queryAppendingUnsupported(b, h, q) ==
    IF Truthy(q)
    THEN IF isString(q)
         THEN [http |-> [b EXCEPT !._url = Str(AppendQuery(@.s, q.s))], threw |-> NoThrow]
         ELSE IF isArray(q)
              THEN [http |-> [b EXCEPT !._url = Str(AppendQuery(@.s, Join(q.a, <<"&">>)))],
                    threw |-> NoThrow]
              ELSE IF isObject(q)
                   THEN [http |-> [b EXCEPT !._url =
                                     Str(AppendQuery(@.s,
                                         JoinStrings(QueryArray(EntriesOf(h, q)), <<"&">>)))],
                         threw |-> NoThrow]
                   ELSE [http |-> [b EXCEPT !._url = Str(AppendQuery(@.s, ToStr(q)))],
                         threw |-> TypeError("Query must be a url encoded string, object, or array")]
    ELSE [http |-> b, threw |-> NoThrow]

\* query, http.js:84-114.
query(b, h, q) ==
    IF Truthy(q)
    THEN IF isString(q)
         THEN [http |-> [b EXCEPT !._url = Str(AppendQuery(@.s, q.s))], threw |-> NoThrow]
         ELSE IF isArray(q)
              THEN [http |-> [b EXCEPT !._url = Str(AppendQuery(@.s, Join(q.a, <<"&">>)))],
                    threw |-> NoThrow]
              ELSE IF isObject(q)
                   THEN [http |-> [b EXCEPT !._url =
                                     Str(AppendQuery(@.s,
                                         JoinStrings(QueryArray(EntriesOf(h, q)), <<"&">>)))],
                         threw |-> NoThrow]
                   ELSE [http |-> b,
                         threw |-> TypeError("Query must be a url encoded string, object, or array")]
    ELSE [http |-> b, threw |-> NoThrow]

\* Mutant of timeout: zero is stored like a positive value.
timeoutStoringZero(b, ms) ==
    IF ~isNumber(ms)
    THEN [http |-> b, threw |-> TypeError("Timeout must be a numeric value")]
    ELSE IF ms.n >= 0
         THEN [http |-> [b EXCEPT !._timeout = ms], threw |-> NoThrow]
         ELSE [http |-> b, threw |-> NoThrow]

\* timeout, http.js:122-131.
timeout(b, ms) ==
    IF ~isNumber(ms)
    THEN [http |-> b, threw |-> TypeError("Timeout must be a numeric value")]
    ELSE IF ms.n > 0
         THEN [http |-> [b EXCEPT !._timeout = ms], threw |-> NoThrow]
         ELSE [http |-> b, threw |-> NoThrow]

\* Mutant of expectResponse: once the flag is false it stays false.
expectResponseSticky(b, responseExpected) ==
    [http |-> [b EXCEPT !._expectResponse =
                 IF Truthy(@) THEN responseExpected ELSE @],
     threw |-> NoThrow]

\* expectResponse, http.js:140-143.
expectResponse(b, responseExpected) ==
    [http |-> [b EXCEPT !._expectResponse = responseExpected], threw |-> NoThrow]

\* Mutant of Envelope: the body is left out of the envelope.
EnvelopeWithoutBody(b) ==
    <<Entry(k_m, b._method), Entry(k_u, b._url)>>

\* The envelope `body` of send, http.js:152-156.
Envelope(b) ==
    <<Entry(k_m, b._method), Entry(k_u, b._url), Entry(k_b, b._body)>>

\* Mutant of SendPath: the expectResponse flag is not consulted.
SendPathIgnoringFlag(b, cb) ==
    IF cb THEN "requestCallback" ELSE "requestPromise"

\* The dispatch path of send, http.js:159, 175, 182.
SendPath(b, cb) ==
    IF ~Truthy(b._expectResponse) THEN "send"
    ELSE IF cb THEN "requestCallback" ELSE "requestPromise"

(***************************************************************************)
(* Inputs of the calls.                                                    *)
(***************************************************************************)
sItems == <<"/", "i", "t", "e", "m", "s">>
sRoute == <<"/", "r", "?", "a", "=", "1">>
sGet == <<"g", "e", "t">>
sPut == <<"p", "u", "t">>
sPage == <<"p", "a", "g", "e">>
sTimeout == <<"t", "i", "m", "e", "o", "u", "t">>
sMessage == <<"m", "e", "s", "s", "a", "g", "e">>

MethodInputs == {Null}
UrlInputs == {Str(sItems), Null}
GetRoutes == {Str(sItems), Null}
PutRoutes == {Str(sRoute)}
BodyInputs ==
    {Obj(<<Entry(<<"a">>, Num(1))>>),
     Obj(<<Entry(<<"a">>, Num(2)), Entry(<<"b">>, Str(<<"x">>))>>),
     Str(<<"x">>),
     Null}
QueryInputs ==
    {Undef,
     Str(<<"q", "=", "1">>),
     Arr(<<Str(<<"b", "=", "2">>), Str(<<"c">>)>>),
     Obj(<<Entry(sPage, Num(2))>>),
     Obj(<<Entry(<<"a">>, Str(<<"1", " ", "2">>)), Entry(<<"b">>, Str(<<"x">>))>>),
     Num(5),
     Bool(TRUE)}
TimeoutInputs == {Num(-5), Num(0), Num(100), Num(500), Str(<<"1", "0">>)}
FlagInputs == {Bool(TRUE), Bool(FALSE)}

\* The error E thrown by the transport's send.
ErrE == Err("E")

\* What the transport replies with: a response packet, an error packet, an
\* error object without _s/_b that has a status of its own, primitives.
okPacket == Obj(<<Entry(k_s, Num(200)), Entry(k_b, Arr(<<Num(1), Num(2), Num(3)>>))>>)
errPacket == Obj(<<Entry(k_s, Num(404)), Entry(k_b, Str(<<"n", "f">>))>>)
errObject == Obj(<<Entry(sMessage, Str(sTimeout)), Entry(kstatus, Num(500))>>)

ResponseInputs == {okPacket, Str(<<"o", "k">>), Undef}
ErrorInputs == {errPacket, errObject, Str(sTimeout), Null}
CallbackInputs ==
    {<<r, Undef>> : r \in ResponseInputs \ {Undef}} \cup {<<Undef, e>> : e \in ErrorInputs}

(***************************************************************************)
(* Initial state: a transport and no builder yet.                          *)
(***************************************************************************)
Result(op, threw, ret) == [op |-> op, threw |-> threw, ret |-> ret]

\* A call of the API: the operation and its argument.
Call(op, arg) == [op |-> op, arg |-> arg]

Init ==
    /\ http = NoHttp
    /\ heap = <<>>
    /\ socket = <<>>
    /\ replies = <<>>
    /\ cbCalls = <<>>
    /\ promises = <<>>
    /\ returned = Result("none", NoThrow, Undef)
    /\ tlog = <<>>
    /\ calls = <<>>
    /\ nsteps = 0

(***************************************************************************)
(* Construction: wrappedSocket.http(method, url) and the verb adapters.    *)
(***************************************************************************)
Http(method, url) ==
    /\ http = NoHttp
    /\ LET c == Construct(method, url, Len(heap) + 1)
       IN  /\ http' = c.http
           /\ heap' = IF c.threw = NoThrow THEN Append(heap, <<>>) ELSE heap
           /\ returned' = Result("http", c.threw, IF c.threw = NoThrow THEN RetHttp ELSE Undef)
    /\ calls' = <<Call("http", Arr(<<method, url>>))>>
    /\ UNCHANGED <<socket, replies, cbCalls, promises, tlog, nsteps>>

\* get.js:10-12
get(route) == Http(Str(sGet), route)

\* put.js:10-12
put(route) == Http(Str(sPut), route)

(***************************************************************************)
(* The mutators.                                                           *)
(***************************************************************************)
Mutator(op, res, newHeap) ==
    /\ http' = res.http
    /\ heap' = newHeap
    /\ returned' = Result(op, res.threw, IF res.threw = NoThrow THEN RetHttp ELSE Undef)
    /\ nsteps' = nsteps + 1
    /\ UNCHANGED <<socket, replies, cbCalls, promises>>

Body(v) ==
    /\ http # NoHttp
    /\ nsteps < MaxSteps
    /\ LET res == body(http, heap, v) IN Mutator("body", res, res.heap)
    /\ calls' = Append(calls, Call("body", v))
    /\ UNCHANGED tlog

Query(q) ==
    /\ http # NoHttp
    /\ nsteps < MaxSteps
    /\ Mutator("query", query(http, heap, q), heap)
    /\ calls' = Append(calls, Call("query", q))
    /\ UNCHANGED tlog

Timeout(ms) ==
    /\ http # NoHttp
    /\ nsteps < MaxSteps
    /\ Mutator("timeout", timeout(http, ms), heap)
    /\ calls' = Append(calls, Call("timeout", ms))
    /\ tlog' = Append(tlog, ms)

ExpectResponse(flag) ==
    /\ http # NoHttp
    /\ nsteps < MaxSteps
    /\ Mutator("expectResponse", expectResponse(http, flag), heap)
    /\ calls' = Append(calls, Call("expectResponse", flag))
    /\ UNCHANGED tlog

(***************************************************************************)
(* send, http.js:151-186.  cb says whether a callback is supplied;         *)
(* sendThrows whether the transport's send throws E.                       *)
(***************************************************************************)
\* A call on wrappedSocket: the envelope and timeout passed, whether the
\* caller of send supplied a callback, and what the call threw.
SocketCall(op, env, ms, cb, threw) ==
    [op |-> op, body |-> env, timeout |-> ms, cb |-> cb, threw |-> threw]
Promise(ctor, state, value, of) ==
    [ctor |-> ctor, state |-> state, value |-> value, of |-> of]
RetPromise(p) == [t |-> "promise", p |-> p]

\* Mutant of catchSend: the error is passed as the first argument of cb.
catchSendErrorFirst(cb, err, of, p) ==
    IF ~cb
    THEN [calls |-> <<>>,
          settled |-> <<[ctor |-> "options.Promise", state |-> "rejected", value |-> err,
                         of |-> of]>>,
          ret |-> [t |-> "promise", p |-> p]]
    ELSE [calls |-> <<[res |-> err, err |-> Null, of |-> of]>>,
          settled |-> <<>>,
          ret |-> Undef]

\* The catch block of http.js:162-169: what send does with the error err
\* thrown by the transport's send.  calls are the invocations of cb,
\* settled the promises created, ret the value send returns.
catchSend(cb, err, of, p) ==
    IF ~cb
    THEN [calls |-> <<>>,
          settled |-> <<Promise("options.Promise", "rejected", err, of)>>,
          ret |-> RetPromise(p)]
    ELSE [calls |-> <<[res |-> Null, err |-> err, of |-> of]>>,
          settled |-> <<>>,
          ret |-> Undef]

\* http.js:159-172
SendNoResponse(cb, sendThrows) ==
    /\ SendPath(http, cb) = "send"
    /\ socket' = Append(socket, SocketCall("send", Envelope(http), Undef, cb,
                                           IF sendThrows THEN ErrE ELSE NoThrow))
    /\ IF sendThrows
       THEN LET c == catchSend(cb, ErrE, Len(socket) + 1, Len(promises) + 1)
            IN  /\ cbCalls' = cbCalls \o c.calls
                /\ promises' = promises \o c.settled
                /\ returned' = Result("send", NoThrow, c.ret)
       ELSE /\ returned' = Result("send", NoThrow, Undef)
            /\ UNCHANGED <<cbCalls, promises>>

\* http.js:175-179
SendCallback(cb) ==
    /\ SendPath(http, cb) = "requestCallback"
    /\ socket' = Append(socket, SocketCall("request", Envelope(http), http._timeout, TRUE, NoThrow))
    /\ returned' = Result("send", NoThrow, Undef)
    /\ UNCHANGED <<cbCalls, promises>>

\* http.js:182-185
SendPromise(cb) ==
    /\ SendPath(http, cb) = "requestPromise"
    /\ socket' = Append(socket, SocketCall("request", Envelope(http), http._timeout, FALSE, NoThrow))
    /\ promises' = Append(promises, Promise("request.then", "pending", Undef, Len(socket) + 1))
    /\ returned' = Result("send", NoThrow, RetPromise(Len(promises) + 1))
    /\ UNCHANGED cbCalls

Send(cb, sendThrows) ==
    /\ http # NoHttp
    /\ Len(socket) < MaxSends
    /\ nsteps < MaxSteps
    /\ \/ SendNoResponse(cb, sendThrows)
       \/ ~sendThrows /\ SendCallback(cb)
       \/ ~sendThrows /\ SendPromise(cb)
    /\ calls' = Append(calls, Call("send", Bool(cb)))
    /\ nsteps' = nsteps + 1
    /\ UNCHANGED <<http, heap, replies, tlog>>

(***************************************************************************)
(* The transport replies to a request.                                     *)
(***************************************************************************)
\* The transport's reply value: a fresh object for a packet, else the primitive.
Alloc(h, v) ==
    IF v.t = "object"
    THEN [heap |-> Append(h, v.m), val |-> Ref(Len(h) + 1)]
    ELSE [heap |-> h, val |-> v]

\* A reply of the transport to request call `of`: the values it produced
\* (res, err), the values it passed (resv, errv: references for objects),
\* what the continuation threw back at it, and the index in cbCalls of the
\* caller's callback invocation it led to (0 if none).
Reply(of, kind, res, err, resv, errv, threw, call) ==
    [of |-> of, kind |-> kind, res |-> res, err |-> err, resv |-> resv, errv |-> errv,
     threw |-> threw, call |-> call]

\* request's callback(response, error): the transport invokes the wrapper
\* of http.js:176-178.
RequestCallback(i, res, err) ==
    /\ i \in 1..Len(socket)
    /\ socket[i].op = "request" /\ socket[i].cb
    /\ Len(replies) < MaxDeliveries
    /\ nsteps < MaxSteps
    /\ LET a1 == Alloc(heap, res)
           a2 == Alloc(a1.heap, err)
           w == wrapper(a2.heap, a1.val, a2.val)
       IN  /\ heap' = w.heap
           /\ replies' = Append(replies, Reply(i, "callback", res, err, a1.val, a2.val, w.threw,
                                               IF w.called THEN Len(cbCalls) + 1 ELSE 0))
           /\ cbCalls' = IF w.called
                         THEN Append(cbCalls, [res |-> w.res, err |-> w.err, of |-> i])
                         ELSE cbCalls
    /\ nsteps' = nsteps + 1
    /\ UNCHANGED <<http, socket, promises, returned, tlog, calls>>

PromiseOf(i) == CHOOSE p \in 1..Len(promises) : promises[p].of = i

\* request's promise fulfils with res: onFulfilled of http.js:183 runs.
RequestFulfil(i, res) ==
    /\ i \in 1..Len(socket)
    /\ socket[i].op = "request" /\ ~socket[i].cb
    /\ promises[PromiseOf(i)].state = "pending"
    /\ Len(replies) < MaxDeliveries
    /\ nsteps < MaxSteps
    /\ LET a == Alloc(heap, res)
           s == onFulfilled(a.heap, a.val)
       IN  /\ heap' = s.heap
           /\ replies' = Append(replies, Reply(i, "fulfil", res, Undef, a.val, Undef, NoThrow, 0))
           /\ promises' = [promises EXCEPT ![PromiseOf(i)].state = s.state,
                                           ![PromiseOf(i)].value = s.value]
    /\ nsteps' = nsteps + 1
    /\ UNCHANGED <<http, socket, cbCalls, returned, tlog, calls>>

\* request's promise rejects with err: onRejected of http.js:183-185 runs.
RequestReject(i, err) ==
    /\ i \in 1..Len(socket)
    /\ socket[i].op = "request" /\ ~socket[i].cb
    /\ promises[PromiseOf(i)].state = "pending"
    /\ Len(replies) < MaxDeliveries
    /\ nsteps < MaxSteps
    /\ LET a == Alloc(heap, err)
           s == onRejected(a.heap, a.val)
       IN  /\ heap' = s.heap
           /\ replies' = Append(replies, Reply(i, "reject", Undef, err, Undef, a.val, NoThrow, 0))
           /\ promises' = [promises EXCEPT ![PromiseOf(i)].state = s.state,
                                           ![PromiseOf(i)].value = s.value]
    /\ nsteps' = nsteps + 1
    /\ UNCHANGED <<http, socket, cbCalls, returned, tlog, calls>>

Next ==
    \/ \E m \in MethodInputs, u \in UrlInputs : Http(m, u)
    \/ \E r \in GetRoutes : get(r)
    \/ \E r \in PutRoutes : put(r)
    \/ \E v \in BodyInputs : Body(v)
    \/ \E q \in QueryInputs : Query(q)
    \/ \E ms \in TimeoutInputs : Timeout(ms)
    \/ \E flag \in FlagInputs : ExpectResponse(flag)
    \/ \E cb \in BOOLEAN, sendThrows \in BOOLEAN : Send(cb, sendThrows)
    \/ \E i \in 1..MaxSends, p \in CallbackInputs : RequestCallback(i, p[1], p[2])
    \/ \E i \in 1..MaxSends, res \in ResponseInputs : RequestFulfil(i, res)
    \/ \E i \in 1..MaxSends, err \in ErrorInputs : RequestReject(i, err)

Spec == Init /\ [][Next]_vars

(***************************************************************************)
(* Properties.                                                             *)
(***************************************************************************)
\* The most recent call on wrappedSocket; the calls of cb and the promises
\* that belong to call i.
LastCall == socket[Len(socket)]
CallsOf(i) == {j \in 1..Len(cbCalls) : cbCalls[j].of = i}
PromisesOf(i) == {p \in 1..Len(promises) : promises[p].of = i}
JustSent == returned.op = "send" /\ Len(socket) > 0

kmethod == <<"m", "e", "t", "h", "o", "d">>
kurl == <<"u", "r", "l">>
sItemsPage2 == sItems \o <<"?", "p", "a", "g", "e", "=", "2">>

\* C1 as stated: the envelope send hands to the transport has exactly the
\* keys method, url and body, holding the builder's method, url and body.
C1_EnvelopeKeysAsStated ==
    JustSent =>
        /\ Keys(LastCall.body) = {kmethod, kurl, kbody}
        /\ GetProp(LastCall.body, kmethod) = http._method
        /\ GetProp(LastCall.body, kurl) = http._url
        /\ GetProp(LastCall.body, kbody) = http._body

\* C1 (amended): the envelope send hands to the transport has exactly the
\* three keys _m, _u and _b, holding the builder's method, its current url
\* and its current body, and a request call gets the builder's timeout.
C1_Envelope ==
    JustSent =>
        /\ Len(LastCall.body) = 3
        /\ Keys(LastCall.body) = {k_m, k_u, k_b}
        /\ GetProp(LastCall.body, k_m) = http._method
        /\ GetProp(LastCall.body, k_u) = http._url
        /\ GetProp(LastCall.body, k_b) = http._body
        /\ LastCall.op = "request" => LastCall.timeout = http._timeout

\* get(transport, "/items").query({page: 2}).timeout(500).send() has passed
\* {_m: "get", _u: "/items?page=2", _b: {}} with timeout 500.
C1_Witness ==
    /\ JustSent
    /\ nsteps = 3
    /\ tlog = <<Num(500)>>
    /\ LastCall.op = "request"
    /\ LastCall.timeout = Num(500)
    /\ LastCall.body = <<Entry(k_m, Str(sGet)), Entry(k_u, Str(sItemsPage2)), Entry(k_b, Ref(1))>>
    /\ heap[1] = <<>>

\* C2: when expectResponse is false and the transport's send throws E, a
\* supplied callback is invoked exactly once, with (null, E), and send
\* returns nothing; without a callback send returns a promise of the
\* configured constructor rejected with E; E is never thrown out of send.
C2_SendFailureReported ==
    (JustSent /\ ~Truthy(http._expectResponse) /\ LastCall.threw # NoThrow) =>
        /\ returned.threw = NoThrow
        /\ LastCall.op = "send"
        /\ IF LastCall.cb
           THEN /\ Cardinality(CallsOf(Len(socket))) = 1
                /\ \A j \in CallsOf(Len(socket)) :
                       cbCalls[j].res = Null /\ cbCalls[j].err = LastCall.threw
                /\ returned.ret = Undef
                /\ PromisesOf(Len(socket)) = {}
           ELSE /\ CallsOf(Len(socket)) = {}
                /\ returned.ret.t = "promise"
                /\ PromisesOf(Len(socket)) = {returned.ret.p}
                /\ promises[returned.ret.p].ctor = "options.Promise"
                /\ promises[returned.ret.p].state = "rejected"
                /\ promises[returned.ret.p].value = LastCall.threw

\* Both cases of C2 have happened: a failure reported to a callback and a
\* failure returned as a rejected promise.
C2_Witness ==
    /\ Len(socket) = 2
    /\ socket[1].op = "send" /\ socket[1].threw = ErrE /\ socket[1].cb
    /\ socket[2].op = "send" /\ socket[2].threw = ErrE /\ ~socket[2].cb
    /\ cbCalls = <<[res |-> Null, err |-> ErrE, of |-> 1]>>
    /\ JustSent /\ returned.ret = RetPromise(1)
    /\ promises[1].state = "rejected"

\* C3: when expectResponse is false and the transport's send succeeds, send
\* returns nothing, the callback is never invoked, no promise is made and
\* the transport's request is not invoked.
C3_SilentSuccess ==
    /\ (JustSent /\ ~Truthy(http._expectResponse) /\ LastCall.threw = NoThrow) =>
           /\ LastCall.op = "send"
           /\ returned.ret = Undef
           /\ returned.threw = NoThrow
    /\ \A i \in 1..Len(socket) :
           (socket[i].op = "send" /\ socket[i].threw = NoThrow) =>
               CallsOf(i) = {} /\ PromisesOf(i) = {}

\* A fire-and-forget send with a callback has succeeded and the callback
\* has stayed silent.
C3_Witness ==
    /\ JustSent
    /\ ~Truthy(http._expectResponse)
    /\ LastCall.op = "send" /\ LastCall.cb /\ LastCall.threw = NoThrow
    /\ cbCalls = <<>>
    /\ returned.ret = Undef

\* The replies made through the wrapper callback, and those made by
\* settling the transport's promise.
CallbackReplies == {j \in 1..Len(replies) : replies[j].kind = "callback"}
PromiseReplies == {j \in 1..Len(replies) : replies[j].kind \in {"fulfil", "reject"}}

\* C4 as stated: each time the transport invokes the wrapper with
\* (response, error), the caller's callback is invoked exactly once, with
\* the translated response and the translated error in that order.
C4_CallbackPerReply ==
    /\ \A j \in CallbackReplies :
           /\ replies[j].call \in CallsOf(replies[j].of)
           /\ cbCalls[replies[j].call].res = replies[j].resv
           /\ cbCalls[replies[j].call].err = replies[j].errv
    /\ \A i \in 1..Len(socket) :
           (socket[i].op = "request" /\ socket[i].cb) =>
               Cardinality(CallsOf(i)) = Cardinality({j \in CallbackReplies : replies[j].of = i})

\* C5 as stated: the returned promise fulfils with the translated r when
\* the transport's promise fulfils with r, and rejects with the translated
\* e when it rejects with e.
C5_PromiseFollowsTransport ==
    \A j \in PromiseReplies :
        LET p == promises[PromiseOf(replies[j].of)]
        IN  IF replies[j].kind = "fulfil"
            THEN p.state = "fulfilled" /\ p.value = replies[j].resv
            ELSE p.state = "rejected" /\ p.value = replies[j].errv

\* The value the caller got for the value v that the transport passed in
\* reply j on the given side ("res" or "err").
Delivered(j, side) ==
    IF replies[j].kind = "callback"
    THEN IF side = "res" THEN cbCalls[replies[j].call].res ELSE cbCalls[replies[j].call].err
    ELSE promises[PromiseOf(replies[j].of)].value

\* The translator has renamed the object raw, passed as val, and handed
\* back val itself.
RenamedInPlace(raw, val, got) ==
    /\ got = val
    /\ val.t = "ref"
    /\ GetProp(heap[val.r], kstatus) = GetProp(raw.m, k_s)
    /\ GetProp(heap[val.r], kbody) = GetProp(raw.m, k_b)
    /\ ~Has(heap[val.r], k_s)
    /\ ~Has(heap[val.r], k_b)

IsPacket(raw) == raw.t = "object" /\ Has(raw.m, k_s) /\ Has(raw.m, k_b)
Completed(j) == replies[j].threw = NoThrow /\ (replies[j].kind = "callback" => replies[j].call > 0)

\* C6: given a truthy response with fields _s and _b the translator returns
\* the same object with status the former _s, body the former _b and
\* neither _s nor _b left; given a falsy value it returns that value.
C6_TranslatorRenames ==
    \A j \in 1..Len(replies) :
        Completed(j) =>
            /\ IsPacket(replies[j].res) =>
                   RenamedInPlace(replies[j].res, replies[j].resv, Delivered(j, "res"))
            /\ IsPacket(replies[j].err) =>
                   RenamedInPlace(replies[j].err, replies[j].errv, Delivered(j, "err"))
            /\ (replies[j].kind # "reject" /\ ~Truthy(replies[j].res)) =>
                   Delivered(j, "res") = replies[j].res
            /\ (replies[j].kind # "fulfil" /\ ~Truthy(replies[j].err)) =>
                   Delivered(j, "err") = replies[j].err

\* The packet {_s: 200, _b: [1, 2, 3]} has reached the caller's callback as
\* {status: 200, body: [1, 2, 3]}, next to an undefined error.
C6_Witness ==
    /\ Len(replies) = 1
    /\ replies[1].kind = "callback"
    /\ replies[1].res = okPacket
    /\ Len(cbCalls) = 1
    /\ cbCalls[1].res.t = "ref"
    /\ heap[cbCalls[1].res.r] =
           <<Entry(kstatus, Num(200)), Entry(kbody, Arr(<<Num(1), Num(2), Num(3)>>))>>
    /\ cbCalls[1].err = Undef

\* The objects the translator has been applied to once.
Translated ==
    {replies[j].resv : j \in {k \in 1..Len(replies) : replies[k].resv.t = "ref"}}
    \cup {replies[j].errv : j \in {k \in 1..Len(replies) : replies[k].errv.t = "ref"}}

\* C7 as stated: translating a translated response again leaves its status
\* and body fields as they are.
C7_TranslateIdempotent ==
    \A v \in Translated :
        LET again == translateResponse(heap, v).heap[v.r]
        IN  /\ Has(again, kstatus) = Has(heap[v.r], kstatus)
            /\ Has(again, kbody) = Has(heap[v.r], kbody)
            /\ GetProp(again, kstatus) = GetProp(heap[v.r], kstatus)
            /\ GetProp(again, kbody) = GetProp(heap[v.r], kbody)

\* C8 as stated: an error object without _s/_b reaches the caller with the
\* fields and values the transport gave it.
C8_ErrorShapeKept ==
    \A j \in 1..Len(replies) :
        LET raw == replies[j].err
        IN  (Completed(j) /\ raw.t = "object" /\ ~Has(raw.m, k_s) /\ ~Has(raw.m, k_b)) =>
                /\ Delivered(j, "err") = replies[j].errv
                /\ Keys(heap[replies[j].errv.r]) = Keys(raw.m)
                /\ \A k \in Keys(raw.m) : GetProp(heap[replies[j].errv.r], k) = GetProp(raw.m, k)

\* C9 as stated: whatever value the transport delivers, the continuation
\* raises nothing: the wrapper calls the caller's callback, and the
\* promise settles with the translated value.
C9_ContinuationNeverThrows ==
    \A j \in 1..Len(replies) :
        /\ replies[j].threw = NoThrow
        /\ replies[j].kind = "callback" => replies[j].call > 0
        /\ replies[j].kind = "fulfil" =>
               promises[PromiseOf(replies[j].of)] =
                   Promise("request.then", "fulfilled", replies[j].resv, replies[j].of)
        /\ replies[j].kind = "reject" =>
               promises[PromiseOf(replies[j].of)] =
                   Promise("request.then", "rejected", replies[j].errv, replies[j].of)

\* The most recent strictly positive number of a log of timeout arguments,
\* 0 if there is none.
RECURSIVE LastPositive(_)
LastPositive(log) ==
    IF log = <<>> THEN Num(0)
    ELSE LET ms == log[Len(log)]
         IN  IF ms.t = "number" /\ ms.n >= 1 THEN ms ELSE LastPositive(SubSeq(log, 1, Len(log) - 1))

\* C10: after any sequence of timeout calls the effective timeout, the one
\* passed to the transport's request, is the most recent strictly positive
\* argument, or 0 if no argument was positive.
C10_TimeoutLastPositive ==
    /\ http # NoHttp => http._timeout = LastPositive(tlog)
    /\ (JustSent /\ LastCall.op = "request") => LastCall.timeout = LastPositive(tlog)

\* timeout(100), timeout(-5), then a send that has passed 100.
C10_Witness ==
    /\ tlog = <<Num(100), Num(-5)>>
    /\ JustSent
    /\ LastCall.op = "request"
    /\ LastCall.timeout = Num(100)

\* The arguments of the calls of operation op so far, in order.
ArgsOf(op) ==
    LET cs == SelectSeq(calls, LAMBDA c : c.op = op)
    IN  [i \in 1..Len(cs) |-> cs[i].arg]

\* The method and url the builder was constructed with.
OriginalMethod == calls[1].arg.a[1]
OriginalUrl == calls[1].arg.a[2]

\* A query input that is appended: truthy, and a string, an array or a mapping.
IsAppended(q) == Truthy(q) /\ q.t \in {"string", "array", "object"}

\* The string a query input is rendered to.
Rendered(q) ==
    CASE q.t = "string" -> q.s
      [] q.t = "array" -> Join(q.a, <<"&">>)
      [] q.t = "object" -> JoinStrings(QueryArray(q.m), <<"&">>)

RenderedQueries ==
    LET qs == SelectSeq(ArgsOf("query"), IsAppended)
    IN  [i \in 1..Len(qs) |-> Rendered(qs[i])]

RECURSIVE Count(_, _)
Count(str, c) ==
    IF str = <<>> THEN 0 ELSE (IF str[1] = c THEN 1 ELSE 0) + Count(Tail(str), c)

RECURSIVE CountAll(_, _)
CountAll(strs, c) ==
    IF strs = <<>> THEN 0 ELSE Count(strs[1], c) + CountAll(Tail(strs), c)

\* C11: after query calls whose valid, non-falsy inputs render to q1..qn
\* the url is u?q1&...&qn when the original url u holds no "?", and
\* u&q1&...&qn when it does; u stays a prefix, the builder adds at most one
\* "?" of its own, and falsy inputs leave the url as it is.
C11_QueryComposition ==
    http # NoHttp =>
        LET u == OriginalUrl.s
            qs == RenderedQueries
            url == http._url.s
        IN  /\ url = IF qs = <<>> THEN u
                     ELSE u \o (IF Contains(u, "?") THEN <<"&">> ELSE <<"?">>)
                            \o JoinStrings(qs, <<"&">>)
            /\ Len(url) >= Len(u) /\ SubSeq(url, 1, Len(u)) = u
            /\ Count(url, "?") - Count(u, "?") - CountAll(qs, "?") \in {0, 1}

\* get("/items").query("q=1").query(undefined).query(["b=2", "c"]) has the
\* url /items?q=1&b=2&c.
C11_Witness ==
    /\ http # NoHttp
    /\ OriginalUrl = Str(sItems)
    /\ ArgsOf("query") = <<Str(<<"q", "=", "1">>), Undef,
                           Arr(<<Str(<<"b", "=", "2">>), Str(<<"c">>)>>)>>
    /\ http._url = Str(sItems \o <<"?", "q", "=", "1", "&", "b", "=", "2", "&", "c">>)

\* The most recent call of the API, and the step that makes a call of op.
LastApi == calls[Len(calls)]
IsCallOf(op) ==
    /\ Len(calls') = Len(calls) + 1
    /\ calls'[Len(calls')].op = op
ArgOfStep == calls'[Len(calls')].arg

\* The value of property k of the body of builder b, read in heap h.
BodyProp(b, h, k) == IF b._body.t = "ref" THEN GetProp(h[b._body.r], k) ELSE Undef
BodyKeys(b, h) == IF b._body.t = "ref" THEN Keys(h[b._body.r]) ELSE {}

\* C12 as stated: body(v) with a mapping v leaves every key of v with v's
\* value in the body and every other accumulated key with its old value;
\* body(v) with any other v makes the body v.
C12_BodyMergeOrReplace ==
    [][IsCallOf("body") =>
          IF ArgOfStep.t = "object"
          THEN /\ \A k \in Keys(ArgOfStep.m) :
                      /\ k \in BodyKeys(http', heap')
                      /\ BodyProp(http', heap', k) = GetProp(ArgOfStep.m, k)
               /\ \A k \in BodyKeys(http, heap) \ Keys(ArgOfStep.m) :
                      /\ k \in BodyKeys(http', heap')
                      /\ BodyProp(http', heap', k) = BodyProp(http, heap, k)
          ELSE http'._body = ArgOfStep]_vars

\* The arguments each mutator accepts.
Accepted(c) ==
    CASE c.op = "body" -> TRUE
      [] c.op = "query" -> ~Truthy(c.arg) \/ c.arg.t \in {"string", "array", "object"}
      [] c.op = "timeout" -> c.arg.t = "number"
      [] c.op = "expectResponse" -> TRUE
      [] OTHER -> FALSE

\* C13 as stated: a mutator called with an argument it accepts completes
\* without raising and returns the builder, also body(mapping) after the
\* body was replaced by a non-object value.
C13_MutatorsNeverRaise ==
    (calls # <<>> /\ Accepted(LastApi)) =>
        returned.threw = NoThrow /\ returned.ret = RetHttp

\* A query input of an unsupported shape (neither falsy nor a string, an
\* array or a mapping) and a timeout input that is not a number.
IsInvalidArgumentStep ==
    \/ IsCallOf("query") /\ Truthy(ArgOfStep) /\ ArgOfStep.t \in {"number", "boolean"}
    \/ IsCallOf("timeout") /\ ArgOfStep.t # "number"

\* C14: query with an input of an unsupported shape and timeout with a
\* non-numeric input raise a TypeError at the call, leave the builder's
\* url, body, timeout and flag as they were and do not touch the transport.
C14_InvalidArgumentChangesNothing ==
    [][IsInvalidArgumentStep =>
          /\ returned'.threw.t = "TypeError"
          /\ returned'.ret = Undef
          /\ http' = http
          /\ heap' = heap
          /\ socket' = socket
          /\ replies' = replies
          /\ cbCalls' = cbCalls
          /\ promises' = promises]_vars

\* After query("q=1"), timeout("10") has raised and then query(true) has
\* raised, and the url is still /items?q=1.
C14_Witness ==
    /\ Len(calls) = 4
    /\ calls[2] = Call("query", Str(<<"q", "=", "1">>))
    /\ calls[3] = Call("timeout", Str(<<"1", "0">>))
    /\ calls[4] = Call("query", Bool(TRUE))
    /\ returned.threw = TypeError("Query must be a url encoded string, object, or array")
    /\ http._url = Str(sItems \o <<"?", "q", "=", "1">>)
    /\ http._timeout = Num(0)
    /\ socket = <<>>

\* C15: constructing a builder with a non-string method or a non-string
\* url raises a TypeError at the call, the method's when both are wrong,
\* returns no builder, and no transport operation is invoked.
C15_ConstructionFailsFast ==
    /\ http = NoHttp => socket = <<>> /\ replies = <<>>
    /\ (calls # <<>> /\ returned.op = "http") =>
           /\ OriginalMethod.t # "string" =>
                  /\ returned.threw = TypeError("HTTP method must be a string")
                  /\ returned.ret = Undef
                  /\ http = NoHttp
           /\ (OriginalMethod.t = "string" /\ OriginalUrl.t # "string") =>
                  /\ returned.threw = TypeError("HTTP URL must be a string")
                  /\ returned.ret = Undef
                  /\ http = NoHttp
           /\ (OriginalMethod.t = "string" /\ OriginalUrl.t = "string") =>
                  /\ returned.threw = NoThrow
                  /\ http # NoHttp

\* The constructor called with a null method and a null url has raised the
\* method's error.
C15_Witness ==
    /\ calls = <<Call("http", Arr(<<Null, Null>>))>>
    /\ returned = Result("http", TypeError("HTTP method must be a string"), Undef)
    /\ http = NoHttp
    /\ socket = <<>>

\* What the transport reads in heap h from the envelope env it was passed.
Deref(h, v) == IF v.t = "ref" THEN Obj(h[v.r]) ELSE v
EnvelopeSeen(h, env) ==
    [method |-> GetProp(env, k_m), url |-> GetProp(env, k_u), body |-> Deref(h, GetProp(env, k_b))]

\* C16 as stated: no later call on the builder changes the method, url or
\* body of an envelope that was already passed to the transport.
C16_EnvelopeByValue ==
    [][\A i \in 1..Len(socket) :
          EnvelopeSeen(heap', socket'[i].body) = EnvelopeSeen(heap, socket[i].body)]_vars

\* The query inputs of the model and the text each must add to the url.
qString == Str(<<"q", "=", "1">>)
qArray == Arr(<<Str(<<"b", "=", "2">>), Str(<<"c">>)>>)
qPage == Obj(<<Entry(sPage, Num(2))>>)
qSpace == Obj(<<Entry(<<"a">>, Str(<<"1", " ", "2">>)), Entry(<<"b">>, Str(<<"x">>))>>)

ExpectedQuery(q) ==
    CASE q = qString -> <<"q", "=", "1">>
      [] q = qArray -> <<"b", "=", "2", "&", "c">>
      [] q = qPage -> <<"p", "a", "g", "e", "=", "2">>
      [] q = qSpace -> <<"a", "=", "1", "%", "2", "0", "2", "&", "b", "=", "x">>

\* C17: query(mapping) appends key=value for each entry, in the mapping's
\* order, joined with "&", keys and values percent-encoded
\* ({a: "1 2", b: "x"} gives a=1%202&b=x); a string is appended as it is
\* and an array is joined with "&" without encoding.
C17_QueryRendering ==
    [][(IsCallOf("query") /\ IsAppended(ArgOfStep)) =>
          LET old == http._url.s
              new == http'._url.s
              text == ExpectedQuery(ArgOfStep)
          IN  /\ ArgOfStep \in {qString, qArray, qPage, qSpace}
              /\ Len(new) = Len(old) + 1 + Len(text)
              /\ SubSeq(new, 1, Len(old)) = old
              /\ new[Len(old) + 1] \in {"?", "&"}
              /\ SubSeq(new, Len(old) + 2, Len(new)) = text]_vars

\* get("/items").query({a: "1 2", b: "x"}) has the url /items?a=1%202&b=x.
C17_Witness ==
    /\ Len(calls) = 2
    /\ OriginalUrl = Str(sItems)
    /\ LastApi = Call("query", qSpace)
    /\ http._url = Str(sItems \o <<"?", "a", "=", "1", "%", "2", "0", "2", "&", "b", "=", "x">>)

\* The position in calls of the i-th send, and the arguments of the calls
\* of op made before position j.
SendPosition(i) ==
    CHOOSE j \in 1..Len(calls) :
        /\ calls[j].op = "send"
        /\ Cardinality({k \in 1..j : calls[k].op = "send"}) = i
ArgsBefore(op, j) ==
    LET cs == SelectSeq(SubSeq(calls, 1, j - 1), LAMBDA c : c.op = op)
    IN  [i \in 1..Len(cs) |-> cs[i].arg]
FlagBefore(j) ==
    LET fs == ArgsBefore("expectResponse", j)
    IN  IF fs = <<>> THEN Bool(TRUE) ELSE fs[Len(fs)]

\* C18: every send invokes exactly one transport operation, chosen by the
\* flag most recently given to expectResponse (true if none was): send
\* when it is false, request with the accumulated timeout when it is true.
C18_OneOperationByFlag ==
    /\ Len(socket) = Len(ArgsOf("send"))
    /\ \A i \in 1..Len(socket) :
           IF Truthy(FlagBefore(SendPosition(i)))
           THEN /\ socket[i].op = "request"
                /\ socket[i].timeout = LastPositive(ArgsBefore("timeout", SendPosition(i)))
           ELSE socket[i].op = "send"

\* expectResponse(false), expectResponse(true), send(): the request
\* operation has been invoked, and only it.
C18_Witness ==
    /\ Len(calls) = 4
    /\ calls[2] = Call("expectResponse", Bool(FALSE))
    /\ calls[3] = Call("expectResponse", Bool(TRUE))
    /\ calls[4].op = "send"
    /\ Len(socket) = 1
    /\ socket[1].op = "request"

\* Every field of the builder but those in fields is the same after the step.
OnlyFields(fields) == \A f \in DOMAIN http \ fields : http'[f] = http[f]
\* Every object on the heap but the builder's body is the same after the step.
OnlyBodyObject ==
    /\ Len(heap') = Len(heap)
    /\ \A r \in 1..Len(heap) : (http._body # Ref(r)) => heap'[r] = heap[r]

\* C19: body changes only the body, query only the url, timeout only the
\* timeout, expectResponse only the flag; the method is the one given at
\* construction in every state; send changes no field of the builder and
\* nothing of its body, whichever way it dispatches and whether or not the
\* transport fails.
C19_FrameOfEachOperation ==
    [][/\ IsCallOf("body") => OnlyFields({"_body"}) /\ OnlyBodyObject
       /\ IsCallOf("query") => OnlyFields({"_url"}) /\ heap' = heap
       /\ IsCallOf("timeout") => OnlyFields({"_timeout"}) /\ heap' = heap
       /\ IsCallOf("expectResponse") => OnlyFields({"_expectResponse"}) /\ heap' = heap
       /\ IsCallOf("send") => http' = http /\ heap' = heap
       /\ (http' # NoHttp) => http'._method = OriginalMethod']_vars

\* timeout(100), expectResponse(false), then a send whose transport call
\* failed: every field is as the mutators left it.
C19_Witness ==
    /\ Len(calls) = 4
    /\ calls[2] = Call("timeout", Num(100))
    /\ calls[3] = Call("expectResponse", Bool(FALSE))
    /\ calls[4].op = "send"
    /\ http._expectResponse = Bool(FALSE)
    /\ Len(socket) = 1 /\ socket[1].threw = ErrE
    /\ http._timeout = Num(100)
    /\ http._body = Ref(1) /\ heap[1] = <<>>
    /\ http._method = Str(sGet)

============================================================================
